---- MODULE Spec2Model ----
(***************************************************************************)
(* Model of src/main.py: a controller-button hold monitor.  main() detects *)
(* controllers, collect_buttons_to_trigger() builds the trigger set, and   *)
(* monitor_triggers_forever() polls snapshots of pressed buttons and calls *)
(* on_hold_action() when a trigger button has been held long enough and    *)
(* is not in cooldown.                                                     *)
(*                                                                         *)
(* Time is the value of time.monotonic() in whole seconds.  One step of    *)
(* MonitorTick is one iteration of the `while True` loop, its trailing     *)
(* sleep included (the sleep and whatever the action took are the next     *)
(* tick's time advance dt).                                                *)
(***************************************************************************)
EXTENDS Integers, Sequences, FiniteSets, TLC

\* ---------------------------------------------------------------- bounds
MaxTime == 9         \* monotonic clock values are 0..MaxTime
MaxStep == 2         \* largest clock advance between two ticks
MaxTimeShort == 6    \* clock values of the threshold <= 0 configuration are 0..MaxTimeShort

\* ---------------------------------------------------------------- config
HOLD_SECONDS == 3
ACTION_COOLDOWN_SECONDS == 5

\* Hold thresholds of the degenerate configuration (threshold <= 0).
NonPositiveHolds == {0, 0 - 1}

\* Button indexes of a controller (js.get_numbuttons() is 2).  The monitor
\* keeps one independent entry per button (C7), so two buttons show every
\* interaction there is.
ButtonIndexes == {0, 1}

\* Controller counts pygame.joystick.get_count() may report.
DeviceCounts == {0, 1}

NoTime == 0 - 1

VARIABLES
    pc,                            \* position in main()
    exit_status,                   \* value returned by main(), NoTime while running
    hold_seconds,                  \* the configured HOLD_SECONDS
    joysticks,                     \* ids of the initialised controllers
    chosen,                        \* collect_buttons_to_trigger: chosen
    last_printed,                  \* collect_buttons_to_trigger: last_printed
    done_event,                    \* collect_buttons_to_trigger: done_event
    triggers,                      \* argument of monitor_triggers_forever
    now,                           \* last sample of time.monotonic()
    pressed_now,                   \* last snapshot read by the monitor
    hold_start_by_btn,
    next_allowed_trigger_by_btn,
    last_hold_log_bucket_by_btn,
    fired_now,                     \* history: on_hold_action calls of the last tick, btn -> elapsed
    trigger_times,                 \* history: per button, the tick times of its triggers
    run_start,                     \* history: per button, first tick of its current unbroken presence
    fires_in_hold,                 \* history: per button, triggers during its current unbroken presence
    early_release,                 \* history: per button, whether a presence of it ended with no trigger in it
    running,                       \* the image names tasklist lists
    faults,                        \* per configured name, what goes wrong with its subprocess calls
    action_index,                  \* on_hold_action: position of `for name in PROCESS_NAMES_TO_KILL`
    kill_attempts,                 \* history: the attempts of the on_hold_action call, in order
    tick_events,                   \* history: what the last monitor iteration did, in order
    action_end,                    \* history: the clock when the last monitor iteration had run its actions
    quit_calls,                    \* how often main's finally block ran pygame.quit()
    enter_thread,                  \* the wait_for_enter thread: "idle", "waiting", "finished", "failed"
    setup_pc,                      \* setup loop: "check" at the while test, "body" inside an iteration
    polls_after_done,              \* history: iterations of the running setup loop that ended with done_event set (capped)
    setup_seen                     \* history: union of the snapshots read during setup

vars == <<pc, exit_status, hold_seconds, joysticks, chosen, last_printed, done_event,
          triggers, now, pressed_now, hold_start_by_btn, next_allowed_trigger_by_btn,
          last_hold_log_bucket_by_btn, fired_now, trigger_times, run_start, fires_in_hold,
          early_release, running, faults, action_index, kill_attempts, tick_events, action_end,
          quit_calls, enter_thread, setup_pc, polls_after_done, setup_seen>>

actionVars == <<running, faults, action_index, kill_attempts>>

setupVars == <<chosen, last_printed, done_event, enter_thread, setup_pc, polls_after_done,
               setup_seen>>

monitorVars == <<now, pressed_now, hold_start_by_btn, next_allowed_trigger_by_btn,
                 last_hold_log_bucket_by_btn, fired_now, trigger_times, run_start,
                 fires_in_hold, early_release, tick_events, action_end>>

\* ---------------------------------------------------------------- data
ButtonInput(jid, b) == [joystick_id |-> jid, button_index |-> b]

\* Every button of every controller there can be.
AllButtons == {ButtonInput(jid, b) : jid \in {0}, b \in ButtonIndexes}

\* The snapshots read_current_pressed_buttons can return.
read_current_pressed_buttons(js) ==
    SUBSET {btn \in AllButtons : btn.joystick_id \in js}

EmptyDict == [btn \in {} |-> 0]

DictSet(d, k, v) == [x \in (DOMAIN d) \cup {k} |-> IF x = k THEN v ELSE d[x]]

DictPop(d, k) == [x \in (DOMAIN d) \ {k} |-> d[x]]

DictGet(d, k, default) == IF k \in DOMAIN d THEN d[k] ELSE default

\* ---------------------------------------------------------------- process control
PROCESS_NAMES_TO_KILL == <<"TeknoParrotUi.exe", "retroarch.exe", "fbneo64.exe">>

\* Image names a tasklist listing may hold.
ImageNames == {"TeknoParrotUi.exe", "RetroArch.exe", "retroarch.exe", "fbneo64.exe", "explorer.exe"}

\* str.lower()
Lower(name) ==
    CASE name = "TeknoParrotUi.exe" -> "teknoparrotui.exe"
      [] name = "RetroArch.exe" -> "retroarch.exe"
      [] OTHER -> name

\* What can go wrong with the subprocess calls made for one name.
Faults == {"none", "tasklist_raises", "taskkill_raises", "taskkill_fails"}

NoFaults == [i \in DOMAIN PROCESS_NAMES_TO_KILL |-> "none"]

\* needle.lower() in output.lower(), the needle being the quoted name
is_process_running(process_name, table) ==
    \E image \in table : Lower(image) = Lower(process_name)

\* taskkill /IM process_name /F with return code 0
TaskkillSucceeds(process_name, table) ==
    {image \in table : Lower(image) # Lower(process_name)}

\* One call of kill_process_by_name: whether the process was found, whether
\* taskkill was run, whether an exception left the call, and the listing after.
kill_process_by_name(process_name, table, fault) ==
    IF fault = "tasklist_raises"
    THEN [name |-> process_name, found |-> FALSE, taskkill |-> FALSE, raised |-> TRUE,
          table |-> table]
    ELSE IF ~is_process_running(process_name, table)
    THEN [name |-> process_name, found |-> FALSE, taskkill |-> FALSE, raised |-> FALSE,
          table |-> table]
    ELSE IF fault = "taskkill_raises"
    THEN [name |-> process_name, found |-> TRUE, taskkill |-> TRUE, raised |-> TRUE,
          table |-> table]
    ELSE IF fault = "taskkill_fails"
    THEN [name |-> process_name, found |-> TRUE, taskkill |-> TRUE, raised |-> FALSE,
          table |-> table]
    ELSE [name |-> process_name, found |-> TRUE, taskkill |-> TRUE, raised |-> FALSE,
          table |-> TaskkillSucceeds(process_name, table)]

\* Mutation: the attempt is made outside any try, so its exception leaves the loop.
TryKillUncaught(process_name, table, fault) ==
    LET r == kill_process_by_name(process_name, table, fault)
    IN  [attempt |-> r, escaped |-> r.raised]

\* Mutation: a name that is not running is an error that leaves the loop.
TryKillNotRunningIsError(process_name, table, fault) ==
    LET r == kill_process_by_name(process_name, table, fault)
    IN  [attempt |-> r, escaped |-> ~r.found]

\* try: kill_process_by_name(name) / except Exception: print
TryKill(process_name, table, fault) ==
    [attempt |-> kill_process_by_name(process_name, table, fault), escaped |-> FALSE]

RECURSIVE OnHoldActionFrom(_, _, _, _)
\* `for name in PROCESS_NAMES_TO_KILL` from position i on: the attempts made,
\* the listing afterwards and whether an exception left the loop.
OnHoldActionFrom(i, attempts, table, flt) ==
    IF i > Len(PROCESS_NAMES_TO_KILL)
    THEN [attempts |-> attempts, table |-> table, escaped |-> FALSE]
    ELSE LET r == TryKill(PROCESS_NAMES_TO_KILL[i], table, flt[i])
         IN  IF r.escaped
             THEN [attempts |-> Append(attempts, r.attempt), table |-> r.attempt.table,
                   escaped |-> TRUE]
             ELSE OnHoldActionFrom(i + 1, Append(attempts, r.attempt), r.attempt.table, flt)

\* on_hold_action(trigger_btn)
on_hold_action(table, flt) == OnHoldActionFrom(1, <<>>, table, flt)

\* ---------------------------------------------------------------- monitor
\* int(elapsed * 4)
LogBucket(elapsed) == elapsed * 4

\* Mutation: the threshold test is strict.
ShouldTriggerStrict(elapsed, t, next_allowed, hold) ==
    elapsed > hold /\ t >= next_allowed

\* Mutation: the cooldown test is missing.
ShouldTriggerNoCooldown(elapsed, t, next_allowed, hold) ==
    elapsed >= hold

\* elapsed >= HOLD_SECONDS and now >= next_allowed
ShouldTrigger(elapsed, t, next_allowed, hold) ==
    elapsed >= hold /\ t >= next_allowed

\* Mutation: the cooldown is not added to the stamp.
NextAllowedAfterTriggerNow(t) == t

\* next_allowed_trigger_by_btn[btn] = now + ACTION_COOLDOWN_SECONDS
NextAllowedAfterTrigger(t) == t + ACTION_COOLDOWN_SECONDS

\* if btn not in hold_start_by_btn: start the timer, drop the log bucket
PressStart(st, btn, t) ==
    IF btn \notin DOMAIN st.hold_start
    THEN [st EXCEPT !.hold_start = DictSet(st.hold_start, btn, t),
                    !.bucket = DictPop(st.bucket, btn)]
    ELSE st

\* the log throttling of the pressed branch
LogHolding(st, btn, elapsed) ==
    IF DictGet(st.bucket, btn, NoTime) # LogBucket(elapsed)
    THEN [st EXCEPT !.bucket = DictSet(st.bucket, btn, LogBucket(elapsed))]
    ELSE st

\* on_hold_action(btn) as the loop body calls it: the call is recorded, the
\* listing changes, the loop waits while it runs, and an exception that
\* leaves the action leaves the loop.
CallAction(st, btn, elapsed) ==
    LET r == on_hold_action(st.table, st.faults)
    IN  [st EXCEPT !.fired = DictSet(st.fired, btn, elapsed),
                   !.events = Append(st.events, <<"action", btn>>),
                   !.busy = st.busy + st.seconds,
                   !.attempts = r.attempts,
                   !.table = r.table,
                   !.escaped = r.escaped]

\* Mutation: the cooldown runs from the moment the action returned.
StampCooldownAtCompletion(st, btn, t) ==
    IF st.escaped
    THEN st
    ELSE [st EXCEPT !.next_allowed = DictSet(st.next_allowed, btn,
                                             NextAllowedAfterTrigger(t + st.busy)),
                    !.events = Append(st.events, <<"stamp", btn>>)]

\* next_allowed_trigger_by_btn[btn] = ..., unless the action raised
StampCooldown(st, btn, t) ==
    IF st.escaped
    THEN st
    ELSE [st EXCEPT !.next_allowed = DictSet(st.next_allowed, btn, NextAllowedAfterTrigger(t)),
                    !.events = Append(st.events, <<"stamp", btn>>)]

\* Mutation: the action is called but the cooldown stamp is not written.
TriggerIfDueNoStamp(st, btn, t, elapsed, hold) ==
    IF ShouldTrigger(elapsed, t, DictGet(st.next_allowed, btn, 0), hold)
    THEN CallAction(st, btn, elapsed)
    ELSE st

\* Mutation: the cooldown stamp is written before the action is called.
TriggerIfDueStampFirst(st, btn, t, elapsed, hold) ==
    IF ShouldTrigger(elapsed, t, DictGet(st.next_allowed, btn, 0), hold)
    THEN CallAction(StampCooldown(st, btn, t), btn, elapsed)
    ELSE st

\* Mutation: the action is called twice for one trigger.
TriggerIfDueCallsTwice(st, btn, t, elapsed, hold) ==
    IF ShouldTrigger(elapsed, t, DictGet(st.next_allowed, btn, 0), hold)
    THEN StampCooldown(CallAction(CallAction(st, btn, elapsed), btn, elapsed), btn, t)
    ELSE st

\* the trigger test, the action call and the cooldown stamp
TriggerIfDue(st, btn, t, elapsed, hold) ==
    IF ShouldTrigger(elapsed, t, DictGet(st.next_allowed, btn, 0), hold)
    THEN StampCooldown(CallAction(st, btn, elapsed), btn, t)
    ELSE st

\* the pressed branch of the loop body
PressedButton(st, btn, t, hold) ==
    LET s1 == PressStart(st, btn, t)
        elapsed == t - s1.hold_start[btn]
        s2 == LogHolding(s1, btn, elapsed)
    IN  TriggerIfDue(s2, btn, t, elapsed, hold)

\* Mutation: a release leaves the hold timer running.
ReleasedButtonKeepsTimer(st, btn) == st

\* Mutation: a release resets the timers of every button.
ReleasedButtonClearsAll(st, btn) ==
    IF btn \in DOMAIN st.hold_start
    THEN [st EXCEPT !.hold_start = EmptyDict, !.bucket = EmptyDict]
    ELSE st

\* Mutation: a release also forgets the cooldown.
ReleasedButtonClearsCooldown(st, btn) ==
    IF btn \in DOMAIN st.hold_start
    THEN [st EXCEPT !.hold_start = DictPop(st.hold_start, btn),
                    !.bucket = DictPop(st.bucket, btn),
                    !.next_allowed = DictPop(st.next_allowed, btn)]
    ELSE st

\* the released branch of the loop body
ReleasedButton(st, btn) ==
    IF btn \in DOMAIN st.hold_start
    THEN [st EXCEPT !.hold_start = DictPop(st.hold_start, btn),
                    !.bucket = DictPop(st.bucket, btn)]
    ELSE st

\* one pass of the body of `for btn in triggers`
UpdateButton(st, btn, t, pressed, hold) ==
    LET s0 == [st EXCEPT !.events = Append(st.events, <<"visit", btn>>)]
    IN  IF btn \in pressed
        THEN PressedButton(s0, btn, t, hold)
        ELSE ReleasedButton(s0, btn)

\* Mutation: the loop visits every pressed button as well.
ButtonsToUpdateAllPressed(trig, pressed) == trig \cup pressed

\* the buttons the loop visits
ButtonsToUpdate(trig, pressed) == trig

RECURSIVE UpdateAll(_, _, _, _, _)
\* `for btn in triggers`, in the set's iteration order
UpdateAll(st, todo, t, pressed, hold) ==
    IF todo = {} \/ st.escaped
    THEN st
    ELSE LET btn == CHOOSE x \in todo : TRUE
         IN  UpdateAll(UpdateButton(st, btn, t, pressed, hold), todo \ {btn}, t, pressed, hold)

\* ---------------------------------------------------------------- history
\* First tick of the unbroken presence of btn that the snapshot `pressed` continues or starts.
RunStartAfter(btn, t, pressed) ==
    IF btn \notin pressed THEN NoTime
    ELSE IF run_start[btn] # NoTime THEN run_start[btn]
    ELSE t

Last(s) == s[Len(s)]

\* ---------------------------------------------------------------- main
Init0(hold) ==
    /\ pc = "start"
    /\ exit_status = NoTime
    /\ hold_seconds = hold
    /\ joysticks = {}
    /\ chosen = {}
    /\ last_printed = {}
    /\ done_event = FALSE
    /\ triggers = {}
    /\ now = 0
    /\ pressed_now = {}
    /\ hold_start_by_btn = EmptyDict
    /\ next_allowed_trigger_by_btn = EmptyDict
    /\ last_hold_log_bucket_by_btn = EmptyDict
    /\ fired_now = EmptyDict
    /\ trigger_times = [btn \in AllButtons |-> <<>>]
    /\ run_start = [btn \in AllButtons |-> NoTime]
    /\ fires_in_hold = [btn \in AllButtons |-> 0]
    /\ early_release = [btn \in AllButtons |-> FALSE]
    /\ running = {}
    /\ faults = NoFaults
    /\ action_index = 1
    /\ kill_attempts = <<>>
    /\ tick_events = <<>>
    /\ action_end = 0
    /\ quit_calls = 0
    /\ enter_thread = "idle"
    /\ setup_pc = "check"
    /\ polls_after_done = 0
    /\ setup_seen = {}

Init == Init0(HOLD_SECONDS)

InitNonPositiveHold == \E hold \in NonPositiveHolds : Init0(hold)

\* joysticks = init_pygame_and_joysticks(); if not joysticks: return 1;
\* otherwise collect_buttons_to_trigger starts its wait_for_enter thread
InitJoysticks ==
    /\ pc = "start"
    /\ \E count \in DeviceCounts :
         /\ joysticks' = 0..(count - 1)
         /\ IF count = 0
            THEN pc' = "exited" /\ exit_status' = 1 /\ enter_thread' = enter_thread
            ELSE pc' = "setup" /\ exit_status' = exit_status /\ enter_thread' = "waiting"
    /\ UNCHANGED <<hold_seconds, triggers, quit_calls>>
    /\ UNCHANGED <<chosen, last_printed, done_event, setup_pc, polls_after_done, setup_seen>>
    /\ UNCHANGED monitorVars
    /\ UNCHANGED actionVars

\* the wait_for_enter thread: input() returned, done_event.set()
WaitForEnter ==
    /\ pc = "setup"
    /\ enter_thread = "waiting"
    /\ done_event' = TRUE
    /\ enter_thread' = "finished"
    /\ UNCHANGED <<pc, exit_status, hold_seconds, joysticks, triggers, quit_calls>>
    /\ UNCHANGED <<chosen, last_printed, setup_pc, polls_after_done, setup_seen>>
    /\ UNCHANGED monitorVars
    /\ UNCHANGED actionVars

\* the wait_for_enter thread: input() raised (end of input), except Exception: pass
WaitForEnterFails ==
    /\ pc = "setup"
    /\ enter_thread = "waiting"
    /\ enter_thread' = "failed"
    /\ UNCHANGED <<pc, exit_status, hold_seconds, joysticks, triggers, quit_calls>>
    /\ UNCHANGED <<chosen, last_printed, done_event, setup_pc, polls_after_done, setup_seen>>
    /\ UNCHANGED monitorVars
    /\ UNCHANGED actionVars

\* Mutation: the while test ignores done_event.
SetupLoopNeverStops(done) == TRUE

\* Mutation: the while test lacks its `not`.
SetupLoopTestInverted(done) == done

\* while not done_event.is_set()
SetupLoopContinues(done) == ~done

\* Mutation: the chosen set is replaced by what is pressed now.
AddNewPressesReplaces(chosen_so_far, pressed) == pressed

\* new_presses = pressed_now - chosen; chosen.add(btn) for each of them
AddNewPresses(chosen_so_far, pressed) == chosen_so_far \cup (pressed \ chosen_so_far)

\* the while test of the setup loop lets another iteration start
SetupCheck ==
    /\ pc = "setup"
    /\ setup_pc = "check"
    /\ SetupLoopContinues(done_event)
    /\ setup_pc' = "body"
    /\ UNCHANGED <<pc, exit_status, hold_seconds, joysticks, triggers, quit_calls>>
    /\ UNCHANGED <<chosen, last_printed, done_event, enter_thread, polls_after_done, setup_seen>>
    /\ UNCHANGED monitorVars
    /\ UNCHANGED actionVars

\* the body of one iteration of the setup loop, its sleep included
SetupPoll ==
    /\ pc = "setup"
    /\ setup_pc = "body"
    /\ \E pressed \in read_current_pressed_buttons(joysticks) :
         /\ pressed_now' = pressed
         /\ chosen' = AddNewPresses(chosen, pressed)
         /\ last_printed' = IF chosen' # last_printed THEN chosen' ELSE last_printed
         /\ setup_seen' = setup_seen \cup pressed
    /\ setup_pc' = "check"
    /\ polls_after_done' = IF done_event /\ polls_after_done < 2
                           THEN polls_after_done + 1 ELSE polls_after_done
    /\ UNCHANGED <<pc, exit_status, hold_seconds, joysticks, triggers, quit_calls>>
    /\ UNCHANGED <<done_event, enter_thread>>
    /\ UNCHANGED <<now, hold_start_by_btn, next_allowed_trigger_by_btn,
                   last_hold_log_bucket_by_btn, fired_now, trigger_times, run_start,
                   fires_in_hold, early_release, tick_events, action_end>>
    /\ UNCHANGED actionVars

\* the while test ends the setup loop; collect_buttons_to_trigger returns
\* chosen and main passes it to monitor_triggers_forever
SetupDone ==
    /\ pc = "setup"
    /\ setup_pc = "check"
    /\ ~SetupLoopContinues(done_event)
    /\ triggers' = chosen
    /\ pc' = "monitor"
    /\ pressed_now' = {}
    /\ polls_after_done' = 0
    /\ UNCHANGED <<exit_status, hold_seconds, joysticks, quit_calls>>
    /\ UNCHANGED <<chosen, last_printed, done_event, enter_thread, setup_pc, setup_seen>>
    /\ UNCHANGED <<now, hold_start_by_btn, next_allowed_trigger_by_btn,
                   last_hold_log_bucket_by_btn, fired_now, trigger_times, run_start,
                   fires_in_hold, early_release, tick_events, action_end>>
    /\ UNCHANGED actionVars

\* The process listings and subprocess faults an action called by the monitor
\* meets.  Nothing to kill:
QuietEnvironment == [table |-> {}, faults |-> NoFaults, seconds |-> 0]

AllTargetsRunning == {"TeknoParrotUi.exe", "retroarch.exe", "fbneo64.exe"}

\* nothing to kill, or every target running with a raise and a failed kill:
SampleEnvironments ==
    {QuietEnvironment,
     [table |-> AllTargetsRunning,
      faults |-> [i \in DOMAIN PROCESS_NAMES_TO_KILL |->
                     IF i = 1 THEN "taskkill_raises" ELSE IF i = 2 THEN "none" ELSE "taskkill_fails"],
      seconds |-> 0]}

\* Whole seconds one call of on_hold_action takes (tasklist and taskkill are
\* subprocesses the loop waits for).
ActionSeconds == {0, 1}

\* nothing to kill, or every target running with any pattern of attempts
\* that raise, the action taking no time or some.
TickEnvironments ==
    {QuietEnvironment} \cup
    {[table |-> AllTargetsRunning, faults |-> f, seconds |-> d] :
        f \in [DOMAIN PROCESS_NAMES_TO_KILL -> {"none", "taskkill_raises"}],
        d \in ActionSeconds}

\* The loop's dictionaries at the top of an iteration, in the environment env.
LoopState(env) ==
    [hold_start |-> hold_start_by_btn,
     next_allowed |-> next_allowed_trigger_by_btn,
     bucket |-> last_hold_log_bucket_by_btn,
     fired |-> EmptyDict,
     events |-> <<>>,
     attempts |-> <<>>,
     table |-> env.table,
     faults |-> env.faults,
     seconds |-> env.seconds,
     busy |-> 0,
     escaped |-> FALSE]

\* The environment is consulted only by on_hold_action: an iteration that
\* calls no action runs the same in every environment.
EnvironmentsConsulted(envs, t, pressed) ==
    IF \E btn \in ButtonsToUpdate(triggers, pressed) \cap pressed :
           ShouldTrigger(t - DictGet(hold_start_by_btn, btn, t), t,
                         DictGet(next_allowed_trigger_by_btn, btn, 0), hold_seconds)
    THEN envs
    ELSE {QuietEnvironment}

\* one iteration of `while True` in monitor_triggers_forever, the clock
\* staying within limit, its actions meeting an environment of envs
MonitorIterationIn(limit, envs) ==
    /\ pc = "monitor"
    /\ \E dt \in 0..MaxStep, pressed \in read_current_pressed_buttons(joysticks) :
         /\ now + dt <= limit
         /\ now + dt >= action_end
         /\ \E env \in EnvironmentsConsulted(envs, now + dt, pressed) :
            LET t == now + dt
                st == UpdateAll(LoopState(env),
                                ButtonsToUpdate(triggers, pressed), t, pressed, hold_seconds)
            IN  /\ t + st.busy <= limit
                /\ action_end' = t + st.busy
                /\ pc' = IF st.escaped THEN "uncaught" ELSE pc
                /\ quit_calls' = IF st.escaped THEN quit_calls + 1 ELSE quit_calls
                /\ kill_attempts' = st.attempts
                /\ tick_events' = st.events
                /\ now' = t
                /\ pressed_now' = pressed
                /\ hold_start_by_btn' = st.hold_start
                /\ next_allowed_trigger_by_btn' = st.next_allowed
                /\ last_hold_log_bucket_by_btn' = st.bucket
                /\ fired_now' = st.fired
                /\ trigger_times' = [btn \in AllButtons |->
                                        IF btn \in DOMAIN st.fired
                                        THEN Append(trigger_times[btn], t)
                                        ELSE trigger_times[btn]]
                /\ run_start' = [btn \in AllButtons |-> RunStartAfter(btn, t, pressed)]
                /\ fires_in_hold' = [btn \in AllButtons |->
                                        IF btn \notin pressed THEN 0
                                        ELSE (IF run_start[btn] = NoTime THEN 0 ELSE fires_in_hold[btn])
                                             + (IF btn \in DOMAIN st.fired THEN 1 ELSE 0)]
                /\ early_release' = [btn \in AllButtons |->
                                        \/ early_release[btn]
                                        \/ /\ btn \notin pressed
                                           /\ run_start[btn] # NoTime
                                           /\ fires_in_hold[btn] = 0]
    /\ UNCHANGED <<exit_status, hold_seconds, joysticks, triggers>>
    /\ UNCHANGED setupVars
    /\ UNCHANGED <<running, faults, action_index>>

MonitorIteration(limit) == MonitorIterationIn(limit, SampleEnvironments)

MonitorTick == MonitorIteration(MaxTime)

MonitorTickFaults == MonitorIterationIn(MaxTimeShort, TickEnvironments)

MonitorTickShort == MonitorIteration(MaxTimeShort)

\* Mutation: the interrupt of the monitor is reported as a failure.
KeyboardInterruptIsFailure ==
    /\ pc \in {"setup", "monitor"}
    /\ IF pc = "monitor"
       THEN pc' = "exited" /\ exit_status' = 1 /\ quit_calls' = quit_calls + 1
       ELSE pc' = "uncaught" /\ exit_status' = exit_status /\ quit_calls' = quit_calls
    /\ UNCHANGED <<hold_seconds, joysticks, triggers>>
    /\ UNCHANGED setupVars
    /\ UNCHANGED monitorVars
    /\ UNCHANGED actionVars

\* Mutation: main has no finally block.
KeyboardInterruptNoCleanup ==
    /\ pc \in {"setup", "monitor"}
    /\ IF pc = "monitor"
       THEN pc' = "exited" /\ exit_status' = 0
       ELSE pc' = "uncaught" /\ exit_status' = exit_status
    /\ UNCHANGED <<hold_seconds, joysticks, triggers, quit_calls>>
    /\ UNCHANGED setupVars
    /\ UNCHANGED monitorVars
    /\ UNCHANGED actionVars

\* Ctrl+C.  In the monitor: except KeyboardInterrupt, finally pygame.quit(),
\* return 0.  In setup: printed and re-raised, and main has no handler
\* around collect_buttons_to_trigger, so it leaves main uncaught.
KeyboardInterrupt ==
    /\ pc \in {"setup", "monitor"}
    /\ IF pc = "monitor"
       THEN pc' = "exited" /\ exit_status' = 0 /\ quit_calls' = quit_calls + 1
       ELSE pc' = "uncaught" /\ exit_status' = exit_status /\ quit_calls' = quit_calls
    /\ UNCHANGED <<hold_seconds, joysticks, triggers>>
    /\ UNCHANGED setupVars
    /\ UNCHANGED monitorVars
    /\ UNCHANGED actionVars

Next ==
    \/ InitJoysticks
    \/ WaitForEnter
    \/ WaitForEnterFails
    \/ SetupCheck
    \/ SetupPoll
    \/ SetupDone
    \/ MonitorTick
    \/ KeyboardInterrupt

Spec == Init /\ [][Next]_vars

NextNonPositiveHold ==
    \/ InitJoysticks
    \/ WaitForEnter
    \/ WaitForEnterFails
    \/ SetupCheck
    \/ SetupPoll
    \/ SetupDone
    \/ MonitorTickShort
    \/ KeyboardInterrupt

SpecNonPositiveHold == InitNonPositiveHold /\ [][NextNonPositiveHold]_vars

NextFaults ==
    \/ InitJoysticks
    \/ WaitForEnter
    \/ WaitForEnterFails
    \/ SetupCheck
    \/ SetupPoll
    \/ SetupDone
    \/ MonitorTickFaults
    \/ KeyboardInterrupt

\* the program with every pattern of action faults, on a shorter clock
SpecFaults == Init /\ [][NextFaults]_vars

\* on_hold_action called on its own, for every listing and every pattern of faults
InitAction ==
    /\ pc = "action"
    /\ exit_status = NoTime
    /\ hold_seconds = HOLD_SECONDS
    /\ joysticks = {}
    /\ chosen = {}
    /\ last_printed = {}
    /\ done_event = FALSE
    /\ triggers = {}
    /\ now = 0
    /\ pressed_now = {}
    /\ hold_start_by_btn = EmptyDict
    /\ next_allowed_trigger_by_btn = EmptyDict
    /\ last_hold_log_bucket_by_btn = EmptyDict
    /\ fired_now = EmptyDict
    /\ trigger_times = [btn \in AllButtons |-> <<>>]
    /\ run_start = [btn \in AllButtons |-> NoTime]
    /\ fires_in_hold = [btn \in AllButtons |-> 0]
    /\ early_release = [btn \in AllButtons |-> FALSE]
    /\ running \in SUBSET ImageNames
    /\ faults \in [DOMAIN PROCESS_NAMES_TO_KILL -> Faults]
    /\ action_index = 1
    /\ kill_attempts = <<>>
    /\ tick_events = <<>>
    /\ action_end = 0
    /\ quit_calls = 0
    /\ enter_thread = "idle"
    /\ setup_pc = "check"
    /\ polls_after_done = 0
    /\ setup_seen = {}

\* one pass of `for name in PROCESS_NAMES_TO_KILL`
KillNext ==
    /\ pc = "action"
    /\ action_index <= Len(PROCESS_NAMES_TO_KILL)
    /\ LET r == TryKill(PROCESS_NAMES_TO_KILL[action_index], running, faults[action_index])
       IN  /\ kill_attempts' = Append(kill_attempts, r.attempt)
           /\ running' = r.attempt.table
           /\ pc' = IF r.escaped THEN "action_raised" ELSE pc
           /\ action_index' = action_index + 1
    /\ UNCHANGED <<exit_status, hold_seconds, joysticks, triggers, faults, quit_calls>>
    /\ UNCHANGED setupVars
    /\ UNCHANGED monitorVars

\* the loop is over: print("[action] Done.") and return
ActionReturns ==
    /\ pc = "action"
    /\ action_index > Len(PROCESS_NAMES_TO_KILL)
    /\ pc' = "action_done"
    /\ UNCHANGED <<exit_status, hold_seconds, joysticks, triggers, quit_calls>>
    /\ UNCHANGED setupVars
    /\ UNCHANGED monitorVars
    /\ UNCHANGED actionVars

NextAction ==
    \/ KillNext
    \/ ActionReturns

SpecAction == InitAction /\ [][NextAction]_vars

TypeOK ==
    /\ pc \in {"start", "setup", "monitor", "exited", "uncaught",
               "action", "action_raised", "action_done"}
    /\ triggers \subseteq AllButtons
    /\ action_end \in now..(now + MaxStep)
    /\ now \in 0..MaxTime
    /\ pressed_now \subseteq AllButtons

\* ---------------------------------------------------------------- properties
\* A step that is one iteration of the monitor loop.
IsTick == pc = "monitor" /\ pc' = "monitor"

\* btn is outside the cooldown of its latest recorded trigger at time t.
CooldownOver(btn, t) ==
    \/ trigger_times[btn] = <<>>
    \/ t >= Last(trigger_times[btn]) + ACTION_COOLDOWN_SECONDS

Max(a, b) == IF a >= b THEN a ELSE b

C2_NoFireBelowThreshold ==
    \A btn \in DOMAIN fired_now :
        /\ btn \in pressed_now
        /\ run_start[btn] # NoTime
        /\ fired_now[btn] = now - run_start[btn]
        /\ fired_now[btn] >= hold_seconds

\* C2: a trigger button outside cooldown, pressed continuously since t0,
\* fires on the first tick with now - t0 >= threshold (boundary included)
\* and on no earlier tick of the hold.
C2_FiresOnFirstThresholdTick ==
    /\ []C2_NoFireBelowThreshold
    /\ [][IsTick =>
            \A btn \in triggers :
                ( /\ btn \in pressed_now'
                  /\ now' - run_start'[btn] >= hold_seconds
                  /\ (run_start[btn] = NoTime \/ now - run_start[btn] < hold_seconds)
                  /\ CooldownOver(btn, now') )
                => btn \in DOMAIN fired_now']_vars

\* A trigger fired with elapsed time exactly equal to the threshold, after
\* ticks of the same hold below it.
C2_Witness ==
    \E btn \in triggers :
        /\ btn \in DOMAIN fired_now
        /\ fired_now[btn] = hold_seconds
        /\ hold_seconds > 0
        /\ trigger_times[btn] = <<now>>

\* C3: after a trigger at T, a hold that starts at t1 < T + cooldown is timed
\* from t1, fires on no tick before T + cooldown, and fires exactly on a tick
\* where elapsed >= threshold and now >= T + cooldown both hold.
C3_RepressWithinCooldown ==
    [][IsTick =>
        \A btn \in triggers :
            ( /\ trigger_times[btn] # <<>>
              /\ btn \in pressed_now'
              /\ (run_start[btn] = NoTime \/ fires_in_hold[btn] = 0)
              /\ run_start'[btn] < Last(trigger_times[btn]) + ACTION_COOLDOWN_SECONDS )
            => /\ run_start'[btn] >= Last(trigger_times[btn])
               /\ hold_start_by_btn'[btn] = run_start'[btn]
               /\ (now' < Last(trigger_times[btn]) + ACTION_COOLDOWN_SECONDS
                     => btn \notin DOMAIN fired_now')
               /\ (btn \in DOMAIN fired_now' <=>
                     /\ now' - run_start'[btn] >= hold_seconds
                     /\ now' >= Last(trigger_times[btn]) + ACTION_COOLDOWN_SECONDS)
               /\ (btn \in DOMAIN fired_now' => fired_now'[btn] = now' - run_start'[btn])]_vars

\* A re-pressed hold crossed the threshold inside the cooldown, was held
\* back, and fired once the cooldown was over.
C3_Witness ==
    \E btn \in triggers :
        /\ Len(trigger_times[btn]) = 2
        /\ btn \in DOMAIN fired_now
        /\ fires_in_hold[btn] = 1
        /\ run_start[btn] < trigger_times[btn][1] + ACTION_COOLDOWN_SECONDS
        /\ fired_now[btn] > hold_seconds

\* C4: two consecutive triggers of a button are at least the cooldown apart.
C4_TriggersCooldownApart ==
    \A btn \in AllButtons :
        \A i \in 1..(Len(trigger_times[btn]) - 1) :
            /\ trigger_times[btn][i] < trigger_times[btn][i + 1]
            /\ trigger_times[btn][i + 1] - trigger_times[btn][i] >= ACTION_COOLDOWN_SECONDS

\* A button triggered, was released, was held again and triggered again.
C4_Witness ==
    \E btn \in triggers :
        /\ Len(trigger_times[btn]) >= 2
        /\ btn \in DOMAIN fired_now
        /\ fires_in_hold[btn] = 1

\* C5: pressed time does not accumulate across holds.  Every trigger of the
\* current hold lies at least the threshold after its press-start, a hold
\* still below the threshold has not fired, and a button pressed again at 2
\* after a hold that was released unfired has, up to time 6, fired at most
\* once and not before 5.
C5_NoAccumulationAcrossHolds ==
    \A btn \in AllButtons :
        /\ fires_in_hold[btn] <= Len(trigger_times[btn])
        /\ \A i \in 1..Len(trigger_times[btn]) :
               i > Len(trigger_times[btn]) - fires_in_hold[btn]
                   => /\ btn \in pressed_now
                      /\ run_start[btn] # NoTime
                      /\ trigger_times[btn][i] - run_start[btn] >= hold_seconds
        /\ (btn \in pressed_now /\ now - run_start[btn] < hold_seconds)
               => fires_in_hold[btn] = 0
        /\ ( /\ hold_seconds = 3
             /\ early_release[btn]
             /\ btn \in pressed_now
             /\ run_start[btn] = 2
             /\ now <= 6 )
           => /\ Len(trigger_times[btn]) <= 1
              /\ \A i \in 1..Len(trigger_times[btn]) : trigger_times[btn][i] >= 5

\* A button was released before the threshold, pressed again at 2 and fired
\* at 5, timed from the second press.
C5_Witness ==
    \E btn \in triggers :
        /\ early_release[btn]
        /\ run_start[btn] = 2
        /\ trigger_times[btn] = <<5>>
        /\ btn \in pressed_now
        /\ now = 6

\* C6: with an empty trigger set the action is never invoked; setup hands the
\* empty set to the monitor, which keeps polling until it is interrupted.
C6_EmptyTriggerSetNeverFires ==
    /\ [](triggers = {} =>
            /\ fired_now = EmptyDict
            /\ \A btn \in AllButtons : trigger_times[btn] = <<>>
            /\ hold_start_by_btn = EmptyDict
            /\ (pc = "monitor" => ENABLED MonitorTick))
    /\ []((pc = "setup" /\ setup_pc = "check" /\ done_event /\ chosen = {}) => ENABLED SetupDone)
    /\ [][(pc = "setup" /\ pc' = "monitor") => triggers' = chosen]_vars
    /\ [][(pc = "monitor" /\ triggers = {} /\ pc' # "monitor")
            => (pc' = "exited" /\ exit_status' = 0)]_vars

\* The monitor, given no trigger buttons, watched a button held beyond the
\* threshold.
C6_Witness ==
    /\ pc = "monitor"
    /\ triggers = {}
    /\ \E btn \in pressed_now :
           run_start[btn] # NoTime /\ now - run_start[btn] > hold_seconds

\* What the monitor holds about one button: its press-start, its cooldown
\* stamp, its log bucket and whether (and with what elapsed time) it fired.
ButtonView(st, btn) ==
    <<DictGet(st.hold_start, btn, NoTime), DictGet(st.next_allowed, btn, NoTime),
      DictGet(st.bucket, btn, NoTime), DictGet(st.fired, btn, NoTime)>>

\* The monitor's state restricted to the buttons of keep, at the start of a tick.
StateOf(keep) ==
    [hold_start |-> [x \in (DOMAIN hold_start_by_btn) \cap keep |-> hold_start_by_btn[x]],
     next_allowed |-> [x \in (DOMAIN next_allowed_trigger_by_btn) \cap keep |->
                          next_allowed_trigger_by_btn[x]],
     bucket |-> [x \in (DOMAIN last_hold_log_bucket_by_btn) \cap keep |->
                    last_hold_log_bucket_by_btn[x]],
     fired |-> EmptyDict,
     events |-> <<>>,
     attempts |-> <<>>,
     table |-> {},
     faults |-> NoFaults,
     seconds |-> 0,
     busy |-> 0,
     escaped |-> FALSE]

\* C7: per-button independence.  On every tick, what the monitor holds about
\* a trigger button a afterwards (timer, cooldown, log bucket, trigger) is
\* what a monitor of a alone computes from a's own state, the tick time and
\* whether a is pressed, whatever the other buttons are and do; so two
\* snapshot sequences with the same tick times that agree on a give a the
\* same states and trigger ticks.  Two buttons that cross the threshold on
\* the same tick, outside their cooldowns, both fire on it.
C7_PerButtonIndependence ==
    [][IsTick =>
        /\ \A a \in triggers :
               ButtonView([hold_start |-> hold_start_by_btn',
                           next_allowed |-> next_allowed_trigger_by_btn',
                           bucket |-> last_hold_log_bucket_by_btn',
                           fired |-> fired_now'], a)
               = ButtonView(UpdateAll(StateOf({a}), ButtonsToUpdate({a}, pressed_now' \cap {a}),
                                      now', pressed_now' \cap {a}, hold_seconds), a)
        /\ \A a \in triggers, b \in triggers :
               ( /\ a # b
                 /\ {a, b} \subseteq pressed_now'
                 /\ now' - run_start'[a] >= hold_seconds
                 /\ now' - run_start'[b] >= hold_seconds
                 /\ CooldownOver(a, now')
                 /\ CooldownOver(b, now') )
               => {a, b} \subseteq DOMAIN fired_now']_vars

\* Two buttons with different press-starts fired on the same tick, one of
\* them after the other had been released and pressed again.
C7_Witness ==
    \E a \in triggers, b \in triggers :
        /\ a # b
        /\ {a, b} \subseteq DOMAIN fired_now
        /\ fired_now[a] # fired_now[b]
        /\ early_release[b]

\* C8: after every tick a trigger button has a recorded press-start exactly
\* when it is in the tick's snapshot.
C8_HoldingIffPressed ==
    /\ DOMAIN hold_start_by_btn = pressed_now \cap triggers
    /\ \A btn \in DOMAIN hold_start_by_btn : hold_start_by_btn[btn] = run_start[btn]

\* C8: a trigger button enters holding on a tick iff it was absent from the
\* previous snapshot (or there was none) and is in this one, its press-start
\* then being the tick's time, and its press-start is cleared on the very
\* tick it is first observed not pressed.
C8_HoldingTransitions ==
    /\ []C8_HoldingIffPressed
    /\ [][IsTick =>
            \A btn \in triggers :
                /\ (btn \notin DOMAIN hold_start_by_btn /\ btn \in DOMAIN hold_start_by_btn')
                       <=> (btn \notin pressed_now /\ btn \in pressed_now')
                /\ (btn \notin pressed_now /\ btn \in pressed_now')
                       => hold_start_by_btn'[btn] = now'
                /\ (btn \in pressed_now /\ btn \in pressed_now')
                       => hold_start_by_btn'[btn] = hold_start_by_btn[btn]
                /\ (btn \in DOMAIN hold_start_by_btn /\ btn \notin pressed_now')
                       => btn \notin DOMAIN hold_start_by_btn']_vars

\* One trigger button is holding since a tick after the first, while another
\* that was holding and fired has been released.
C8_Witness ==
    \E a \in triggers, b \in triggers :
        /\ a \in DOMAIN hold_start_by_btn
        /\ hold_start_by_btn[a] > 0
        /\ hold_start_by_btn[a] < now
        /\ b \notin pressed_now
        /\ trigger_times[b] # <<>>

\* The entry of btn in the dictionary d is the same before and after the step.
SameEntry(d, e, btn) ==
    /\ (btn \in DOMAIN d) <=> (btn \in DOMAIN e)
    /\ DictGet(d, btn, NoTime) = DictGet(e, btn, NoTime)

\* C9: the release of a button clears its press-start and its log bucket and
\* nothing else: its cooldown stamp and the other buttons' press-starts are
\* left alone; and on any tick on which a button does not fire its cooldown
\* stamp is unchanged.
C9_ReleaseKeepsCooldown ==
    [][IsTick =>
        \A btn \in triggers :
            /\ (btn \in DOMAIN hold_start_by_btn /\ btn \notin pressed_now')
                   => /\ btn \notin DOMAIN hold_start_by_btn'
                      /\ btn \notin DOMAIN last_hold_log_bucket_by_btn'
                      /\ SameEntry(next_allowed_trigger_by_btn, next_allowed_trigger_by_btn', btn)
                      /\ \A other \in triggers \ {btn} :
                             (other \in pressed_now /\ other \in pressed_now')
                                 => SameEntry(hold_start_by_btn, hold_start_by_btn', other)
            /\ btn \notin DOMAIN fired_now'
                   => SameEntry(next_allowed_trigger_by_btn, next_allowed_trigger_by_btn', btn)]_vars

\* A button has just been released while its cooldown is still running.
C9_Witness ==
    \E btn \in triggers :
        /\ btn \notin pressed_now
        /\ btn \notin DOMAIN hold_start_by_btn
        /\ btn \in DOMAIN next_allowed_trigger_by_btn
        /\ now < next_allowed_trigger_by_btn[btn]
        /\ next_allowed_trigger_by_btn[btn] = Last(trigger_times[btn]) + ACTION_COOLDOWN_SECONDS
        /\ now > Last(trigger_times[btn])

C11_AttemptsInOrder ==
    /\ Len(kill_attempts) = action_index - 1
    /\ Len(kill_attempts) <= Len(PROCESS_NAMES_TO_KILL)
    /\ \A i \in 1..Len(kill_attempts) : kill_attempts[i].name = PROCESS_NAMES_TO_KILL[i]
    /\ pc # "action_raised"
    /\ pc = "action_done" => Len(kill_attempts) = Len(PROCESS_NAMES_TO_KILL)
    /\ (pc = "action" /\ action_index <= Len(PROCESS_NAMES_TO_KILL)) => ENABLED KillNext

C11_EveryNameAttemptedOnce ==
    /\ []C11_AttemptsInOrder
    /\ [][(pc = "action" /\ action_index' # action_index) =>
            LET name == PROCESS_NAMES_TO_KILL[action_index]
                listed == \E image \in running : Lower(image) = Lower(name)
                attempt == Last(kill_attempts')
            IN  /\ action_index' = action_index + 1
                /\ attempt.name = name
                /\ attempt.taskkill <=> (listed /\ faults[action_index] # "tasklist_raises")
                /\ attempt.taskkill <=> attempt.found
                /\ (~listed /\ faults[action_index] # "tasklist_raises") => ~attempt.raised
                /\ ~attempt.taskkill => running' = running]_vars

\* The action returned after the first name's attempt raised, the second
\* name's taskkill failed and the third name was not running.
C11_Witness ==
    /\ pc = "action_done"
    /\ Len(kill_attempts) = 3
    /\ kill_attempts[1].raised
    /\ kill_attempts[2].taskkill /\ ~kill_attempts[2].raised /\ faults[2] = "taskkill_fails"
    /\ ~kill_attempts[3].found /\ ~kill_attempts[3].raised

\* The dictionaries and the trigger record of a loop state.
LoopOutcome(st) == <<st.hold_start, st.next_allowed, st.bucket, st.fired>>

\* C12: the monitor loop stops only by an interrupt.  Whatever raises or
\* fails inside the action, the iteration ends in the loop, the next one can
\* run, and the hold and cooldown state is what it is when nothing fails.
C12_LoopSurvivesActionFaults ==
    /\ [](pc = "monitor" => ENABLED MonitorTickFaults)
    /\ [][pc = "monitor" =>
            \/ pc' = "monitor"
            \/ pc' = "exited" /\ exit_status' = 0 /\ UNCHANGED monitorVars]_vars
    /\ [][IsTick =>
            LoopOutcome([hold_start |-> hold_start_by_btn',
                         next_allowed |-> next_allowed_trigger_by_btn',
                         bucket |-> last_hold_log_bucket_by_btn',
                         fired |-> fired_now'])
            = LoopOutcome(UpdateAll(LoopState(QuietEnvironment),
                                    ButtonsToUpdate(triggers, pressed_now'),
                                    now', pressed_now', hold_seconds))]_vars

\* A trigger fired, every attempt of its action raised, and the loop goes on
\* with the cooldown stamped.
C12_Witness ==
    /\ pc = "monitor"
    /\ Len(kill_attempts) = Len(PROCESS_NAMES_TO_KILL)
    /\ \A i \in 1..Len(kill_attempts) : kill_attempts[i].raised
    /\ \E btn \in triggers :
           /\ btn \in DOMAIN fired_now
           /\ next_allowed_trigger_by_btn[btn] = now + ACTION_COOLDOWN_SECONDS

\* C13: the program ends with a non-zero status only if no input devices were
\* available at startup; every other run, one interrupted during setup or
\* during monitoring included, ends with status 0 and no uncaught error.
C13_NonZeroOnlyWithoutDevices ==
    pc \in {"exited", "uncaught"} =>
        /\ pc = "exited"
        /\ exit_status \in {0, 1}
        /\ exit_status = 1 <=> joysticks = {}

\* C14: an interrupt at any point of monitoring ends the program gracefully:
\* the loop has stopped, pygame.quit() has run exactly once, and main returns
\* 0.  With no devices main returns 1 before setup or monitoring starts.
C14_StateAfterShutdown ==
    /\ quit_calls <= 1
    /\ quit_calls = 1 => (pc = "exited" /\ exit_status = 0 /\ joysticks # {} /\ done_event)
    /\ (pc = "exited" /\ exit_status = 0) => quit_calls = 1
    /\ pc = "monitor" => (ENABLED KeyboardInterrupt /\ quit_calls = 0)
    /\ exit_status = 1 =>
           /\ pc = "exited"
           /\ joysticks = {}
           /\ enter_thread = "idle"
           /\ setup_seen = {} /\ chosen = {} /\ ~done_event
           /\ tick_events = <<>> /\ now = 0
           /\ quit_calls = 0

C14_GracefulShutdown ==
    /\ []C14_StateAfterShutdown
    /\ [][(pc = "monitor" /\ pc' # "monitor") =>
            /\ pc' = "exited"
            /\ exit_status' = 0
            /\ quit_calls' = quit_calls + 1]_vars
    /\ [][(pc = "start" /\ joysticks' = {}) => (pc' = "exited" /\ exit_status' = 1)]_vars
    /\ [][pc = "exited" => pc' = "exited"]_vars

\* The monitor was interrupted right after an iteration that ran the action.
C14_Witness ==
    /\ pc = "exited"
    /\ exit_status = 0
    /\ quit_calls = 1
    /\ fired_now # EmptyDict
    /\ Len(kill_attempts) = Len(PROCESS_NAMES_TO_KILL)

\* The positions of tick_events' at which the action was called for btn.
ActionCalls(btn) == {i \in DOMAIN tick_events' : tick_events'[i] = <<"action", btn>>}

\* btn meets the trigger condition on the tick this step takes.
TriggerDue(btn) ==
    /\ btn \in triggers \cap pressed_now'
    /\ now' - run_start'[btn] >= hold_seconds
    /\ CooldownOver(btn, now')

\* C15: each trigger event causes exactly one call of the action, made inside
\* the tick that detected it: the call comes right after the button was
\* examined and returns before the button's cooldown stamp is written, before
\* any other button of the tick is examined, and before the next snapshot is
\* read; and the stamp is the tick's `now` plus the cooldown, however long the
\* action ran.
C15_ActionSynchronousInTick ==
    [][IsTick =>
        /\ \A btn \in AllButtons :
               Cardinality(ActionCalls(btn)) = IF TriggerDue(btn) THEN 1 ELSE 0
        /\ \A i \in DOMAIN tick_events' :
               tick_events'[i][1] = "action" =>
                   /\ i > 1 /\ i < Len(tick_events')
                   /\ tick_events'[i - 1] = <<"visit", tick_events'[i][2]>>
                   /\ tick_events'[i + 1] = <<"stamp", tick_events'[i][2]>>
        /\ \A i \in DOMAIN tick_events' :
               tick_events'[i][1] = "stamp" =>
                   i > 1 /\ tick_events'[i - 1] = <<"action", tick_events'[i][2]>>
        /\ \A btn \in triggers :
               Cardinality({i \in DOMAIN tick_events' : tick_events'[i] = <<"visit", btn>>}) = 1
        /\ \A btn \in AllButtons :
               TriggerDue(btn) =>
                   next_allowed_trigger_by_btn'[btn] = now' + ACTION_COOLDOWN_SECONDS
        /\ action_end' >= now'
        /\ now' >= action_end]_vars

\* Two buttons fired on one tick and their actions took time: the clock had
\* moved on when the stamps were written, and both stamps are the tick's now
\* plus the cooldown.
C15_Witness ==
    /\ pc = "monitor"
    /\ Cardinality(DOMAIN fired_now) = 2
    /\ action_end > now
    /\ Len(tick_events) = 6
    /\ \A btn \in DOMAIN fired_now :
           next_allowed_trigger_by_btn[btn] = now + ACTION_COOLDOWN_SECONDS

\* C16 (states): the done signal is set by the console thread only; once it
\* is set the setup loop runs at most the iteration it is in and then can
\* only exit; monitoring runs only with the signal set and with the finished
\* chosen set as its trigger set, and nothing of the monitor has run before.
C16_HandoffState ==
    /\ done_event <=> enter_thread = "finished"
    /\ polls_after_done <= 1
    /\ (pc = "setup" /\ setup_pc = "check" /\ done_event) =>
           (ENABLED SetupDone /\ ~ENABLED SetupCheck)
    /\ (pc = "setup" /\ ~done_event) => ~ENABLED SetupDone
    /\ pc = "monitor" =>
           /\ done_event
           /\ setup_pc = "check"
           /\ triggers = chosen
    /\ pc \in {"start", "setup"} =>
           /\ triggers = {}
           /\ now = 0
           /\ tick_events = <<>>
           /\ hold_start_by_btn = EmptyDict
           /\ next_allowed_trigger_by_btn = EmptyDict

\* C16: setup/monitoring hand-off.  The setup loop exits only with the done
\* signal set by the console thread, or by an interrupt; it exits within one
\* poll iteration of the signal; the thread writes nothing but the signal;
\* monitoring starts after setup returned, with the set setup returned, which
\* no longer changes.
C16_SetupMonitorHandoff ==
    /\ []C16_HandoffState
    /\ [][(pc = "setup" /\ pc' # "setup") =>
            \/ pc' = "uncaught"
            \/ /\ pc' = "monitor"
               /\ done_event
               /\ setup_pc = "check"
               /\ triggers' = chosen
               /\ chosen' = chosen]_vars
    /\ [][(done_event' # done_event \/ (enter_thread # "idle" /\ enter_thread' # enter_thread)) =>
            /\ pc = "setup" /\ enter_thread = "waiting"
            /\ UNCHANGED <<pc, exit_status, hold_seconds, joysticks, triggers, quit_calls>>
            /\ UNCHANGED <<chosen, last_printed, setup_pc, polls_after_done, setup_seen>>
            /\ UNCHANGED monitorVars
            /\ UNCHANGED actionVars]_vars
    /\ [][pc = "monitor" => (chosen' = chosen /\ done_event' = done_event)]_vars

\* ENTER arrived while an iteration of the setup loop was running: that
\* iteration has ended with buttons chosen, and the loop is at its test.
C16_Witness ==
    /\ pc = "setup"
    /\ setup_pc = "check"
    /\ done_event
    /\ polls_after_done = 1
    /\ chosen # {}

\* C17 (states): the keys of the press-start, cooldown and log-bucket maps,
\* and the buttons that fire, are trigger buttons, and the trigger set of the
\* monitor is the set setup returned.
C17_MapsWithinTriggerSet ==
    /\ DOMAIN hold_start_by_btn \subseteq triggers
    /\ DOMAIN next_allowed_trigger_by_btn \subseteq triggers
    /\ DOMAIN last_hold_log_bucket_by_btn \subseteq triggers
    /\ DOMAIN fired_now \subseteq triggers
    /\ pc = "monitor" => triggers = chosen

\* C17: buttons outside the trigger set are ignored and monitoring never
\* changes the trigger set: whichever non-trigger buttons a snapshot holds
\* besides its trigger buttons, the tick leaves the same maps and fires the
\* same triggers.
C17_NonTriggerButtonsIgnored ==
    /\ []C17_MapsWithinTriggerSet
    /\ [][pc = "monitor" => triggers' = triggers]_vars
    /\ [][IsTick =>
            \A extra \in SUBSET (AllButtons \ triggers) :
                LoopOutcome(UpdateAll(LoopState(QuietEnvironment),
                                      ButtonsToUpdate(triggers, (pressed_now' \cap triggers) \cup extra),
                                      now', (pressed_now' \cap triggers) \cup extra, hold_seconds))
                = LoopOutcome([hold_start |-> hold_start_by_btn',
                               next_allowed |-> next_allowed_trigger_by_btn',
                               bucket |-> last_hold_log_bucket_by_btn',
                               fired |-> fired_now'])]_vars

\* A trigger button fired on a tick on which a button outside the trigger
\* set had been held for the threshold as well.
C17_Witness ==
    /\ pc = "monitor"
    /\ fired_now # EmptyDict
    /\ \E btn \in pressed_now \ triggers :
           /\ run_start[btn] # NoTime
           /\ now - run_start[btn] >= hold_seconds
           /\ btn \notin DOMAIN hold_start_by_btn

\* C18: during setup the chosen set only grows: after each iteration of the
\* setup loop it is the union of the snapshots read so far, a button that was
\* released stays in it, and the set handed to the monitor is the union of
\* every snapshot read before the loop exited.
C18_ChosenIsUnionOfSnapshots ==
    /\ [](pc = "setup" => chosen = setup_seen)
    /\ [](pc = "monitor" => triggers = setup_seen)
    /\ [][chosen \subseteq chosen' /\ setup_seen \subseteq setup_seen']_vars
    /\ [][(pc = "setup" /\ setup_pc = "body" /\ setup_pc' = "check") =>
            /\ setup_seen' = setup_seen \cup pressed_now'
            /\ chosen' = chosen \cup pressed_now']_vars
    /\ [][(pc = "setup" /\ pc' = "monitor") => triggers' = setup_seen]_vars

\* Two snapshots chose two buttons, and the one chosen first has been released.
C18_Witness ==
    /\ pc = "setup"
    /\ setup_pc = "check"
    /\ Cardinality(chosen) = 2
    /\ Cardinality(pressed_now) = 1
    /\ pressed_now \subseteq chosen
    /\ last_printed = chosen

====
